---- MODULE Spec2Model ----
(***************************************************************************)
(* State-machine model of SonicAudioEngine (src/services/audioEngine.ts).  *)
(*                                                                         *)
(* Units.  Audio-clock times are integers in milliseconds (0.1 s = 100).   *)
(* Beat positions (currentBeat, note.startTime, note.duration) are in      *)
(* thousandths of a beat (0.25 beat = 250).  Gains, playback rates and     *)
(* reverb sends are in hundredths (volume/100 = 0.8 is 80).  The tempos    *)
(* the model feeds to setBpm divide 15000, so that the step interval       *)
(* 0.25 * 60 / tempo seconds is a whole number of milliseconds and the     *)
(* additions the code performs in floating point are exact here.           *)
(* A note's startTime is a decimal of three places; the one comparison     *)
(* whose outcome the rounding of such a decimal to a double can change,    *)
(* the tolerance test of scheduleNotesForBeat, is evaluated on the doubles.*)
(*                                                                         *)
(* An optional value (T | null | undefined) is the empty sequence when     *)
(* absent and a one-element sequence when present.  An instrument name is  *)
(* the sequence of its characters.  A note's level is in units of          *)
(* 1/25400 (one half of 1/100 of 1/127), in which (volume/100) *           *)
(* (velocity/127) and its half are whole numbers.                          *)
(***************************************************************************)
EXTENDS Integers, Sequences, FiniteSets, TLC

VARIABLES
    ctx,              \* TRUE once initAudio has created the AudioContext
    currentTime,      \* ctx.currentTime, ms
    isPlaying,
    layers,
    tempo,
    userAudioBuffer,  \* None, or Some(file) for the decoded buffer of that file
    userSourceNode,   \* None, or Some([id, buffer, playbackRate])
    userGainNode,     \* None, or Some([chain, gain])
    userFilterNode,   \* None, or Some([chain, frequency])
    userReverbGain,   \* None, or Some([chain, gain])
    nextNoteTime,
    currentBeat,
    timerID,          \* last value returned by setTimeout, NoTimer when undefined
    timers,           \* environment: timer ids armed and neither fired nor cleared
    sounding,         \* environment: ids of buffer sources started and not stopped
    loads,            \* environment: files whose loadUserAudio call is awaiting its decode
    dispatched,       \* history: the steps handed to scheduleNotesForBeat since the last start()
    calls,            \* history: number of public calls made so far
    lastOp,           \* history: the latest operation, with isPlaying and currentBeat before it
    session,          \* history: the clock, and whether a buffer and a user layer were there, at the latest effective start()
    lastDecode,       \* history: outcome of the decode that settled last
    returned,         \* history: <<outcome, what the caller of loadUserAudio got>> of the loads settled so far
    lastTick,         \* history: the audio clock at the latest run of scheduler(), where the environment records it
    loadLog           \* history: <<"call", file>> and <<"done", file>> in the order loadUserAudio was called and settled, where the environment records it

vars == <<ctx, currentTime, isPlaying, layers, tempo, userAudioBuffer,
          userSourceNode, userGainNode, userFilterNode, userReverbGain,
          nextNoteTime, currentBeat, timerID, timers, sounding, loads,
          dispatched, calls, lastOp, session, lastDecode, returned, lastTick,
          loadLog>>

None == <<>>
Some(x) == <<x>>

----------------------------------------------------------------------------
(* Program constants *)

scheduleAheadTime == 100
StartOffset == 100
QuarterBeat == 250
LoopBeats == 16000
NoteTolerance == 100
DefaultTempo == 120
NoTimer == 0

(* Bounds of the model *)

Quantum == 25
MaxTime == 100
MaxCalls == 5
MaxLoopTime == 450
MaxLoopCalls == 3
MaxTimers == 3
MaxSources == 3
MaxSynthTime == 50
MaxSynthCalls == 2
MaxFxTime == 25
MaxFxCalls == 4
MaxLoadTime == 25
MaxLoadCalls == 3
MaxTempoTime == 100
MaxTempoCalls == 3
MaxLiveTime == 450
MaxLiveCalls == 2
MaxClockTime == 300
MaxClockCalls == 3
MaxGridTime == 450
MaxGridCalls == 2
MaxOverlapTime == 25
MaxOverlapCalls == 3

Tempos == {120, 3000}
AnyTempos == {0 - 120, 0, 120}
Files == {"take1", "corrupt"}
LoadFiles == {"take1", "take2", "corrupt", "unreadable"}

\* file.arrayBuffer() resolves; decodeAudioData resolves
Readable(f) == f # "unreadable"
Decodable(f) == f # "corrupt"

----------------------------------------------------------------------------
(* Layers supplied by the caller *)

Note(start) == [pitch |-> 36, startTime |-> start, duration |-> 1000, velocity |-> 100]

BassNotes == <<Note(0), Note(500), Note(15750)>>

UserLayer(active, vol) ==
    [id |-> "stem", type |-> "user", instrument |-> <<"V", "o", "c", "a", "l">>, isActive |-> active,
     volume |-> vol, notes |-> None, fx |-> None]

BassLayer(active) ==
    [id |-> "bass", type |-> "ai", instrument |-> <<"B", "a", "s", "s">>, isActive |-> active,
     volume |-> 80, notes |-> Some(BassNotes), fx |-> None]

LayerLists ==
    { <<>>,
      <<UserLayer(TRUE, 80), BassLayer(TRUE)>>,
      <<UserLayer(FALSE, 80), BassLayer(TRUE)>>,
      <<UserLayer(TRUE, 50), BassLayer(FALSE)>> }

\* User-audio layers with and without FX settings (rates and reverb sends in
\* hundredths, cutoff in Hz), and a composition without a user-audio layer.
Fx(rate, freq, wet) ==
    Some([playbackRate |-> rate, filterFreq |-> freq, reverb |-> wet, distortion |-> None])

FxLayer(active, vol, fx) == [UserLayer(active, vol) EXCEPT !.fx = fx]

FxLayerLists ==
    { <<FxLayer(TRUE, 80, None)>>,
      <<FxLayer(TRUE, 80, Fx(Some(100), Some(20000), Some(0)))>>,
      <<FxLayer(TRUE, 60, Fx(Some(200), Some(800), Some(50)))>>,
      <<FxLayer(TRUE, 60, Fx(None, Some(800), Some(50)))>>,
      <<FxLayer(FALSE, 80, Fx(Some(200), None, None))>>,
      <<BassLayer(TRUE)>> }

\* Synthesized layers of each timbre, with volumes and velocities inside and outside
\* the ranges 0..100 and 0..127, each holding one note at the loop start.
NoteOf(start, duration, velocity) ==
    [pitch |-> 60, startTime |-> start, duration |-> duration, velocity |-> velocity]

SynthLayer(name, active, vol, notes) ==
    [id |-> "synth", type |-> "ai", instrument |-> name, isActive |-> active,
     volume |-> vol, notes |-> notes, fx |-> None]

Instruments ==
    { <<"K", "i", "c", "k">>,
      <<"S", "u", "b", " ", "B", "a", "s", "s">>,
      <<"P", "i", "a", "n", "o">> }

Volumes == {0, 80, 100, 150, 0 - 20}
Velocities == {0, 100, 127, 200}
Durations == {500, 1000, 4000}

\* Notes between two cursor values, a tolerance away from one (0.1, 15.85), just
\* inside and just outside the tolerance, on the last cursor value, and past it.
EdgeNotes ==
    <<NoteOf(125, 500, 100), NoteOf(100, 500, 100), NoteOf(4099, 500, 100),
      NoteOf(4101, 500, 100), NoteOf(15750, 500, 100), NoteOf(15850, 500, 100),
      NoteOf(15900, 500, 100), NoteOf(16000, 500, 100)>>

EdgeLayerLists ==
    {<<SynthLayer(<<"K", "i", "c", "k">>, TRUE, 80, Some(EdgeNotes))>>,
     <<BassLayer(TRUE), SynthLayer(<<"P", "i", "a", "n", "o">>, TRUE, 80, Some(EdgeNotes))>>}

\* Instrument tags in upper, lower and mixed case, with one, several or none of the
\* words the synthesizer looks for, and the empty tag.
Tags ==
    { <<"D", "R", "U", "M", " ", "B", "A", "S", "S">>,
      <<"B", "a", "s", "s", " ", "D", "r", "u", "m">>,
      <<"K", "I", "C", "K">>,
      <<"k", "i", "c", "k">>,
      <<"b", "A", "s", "S">>,
      <<"D", "r", "u", "m", "s">>,
      <<>>,
      <<"B", "a", "s">>,
      <<"S", "y", "n", "t", "h", " ", "L", "e", "a", "d">>,
      <<"k", "i", "c", " ", "k">>,
      <<"E", "-", "B", "a", "s", "s", " ", "2">> }

TagLayerLists ==
    { <<SynthLayer(tag, TRUE, 80, Some(<<NoteOf(0, 1000, 100)>>))>> : tag \in Tags }

SynthLayerLists ==
    { <<SynthLayer(name, TRUE, vol, Some(<<NoteOf(0, duration, velocity)>>))>> :
        name \in Instruments, vol \in Volumes, duration \in Durations,
        velocity \in Velocities }

\* Layers of every kind (synthesized, user audio with a note list, synthesized without
\* one), active or not, with notes on, near and off the first steps of the grid.
GridNotes ==
    <<NoteOf(0, 1000, 100), NoteOf(50, 1000, 100), NoteOf(100, 1000, 100),
      NoteOf(250, 1000, 100), NoteOf(351, 1000, 100), NoteOf(0 - 50, 1000, 100),
      NoteOf(1000, 1000, 100)>>

GridLayerLists ==
    { <<SynthLayer(<<"P", "i", "a", "n", "o">>, lead, 80, Some(GridNotes)),
        [UserLayer(user, 80) EXCEPT !.notes = Some(GridNotes)],
        SynthLayer(<<"B", "a", "s", "s">>, bass, 80, None),
        SynthLayer(<<"K", "i", "c", "k">>, kick, 80, Some(<<NoteOf(250, 500, 127)>>))>> :
        lead \in BOOLEAN, user \in BOOLEAN, bass \in BOOLEAN, kick \in BOOLEAN }

----------------------------------------------------------------------------
(* Helpers *)

Abs(x) == IF x < 0 THEN 0 - x ELSE x

Min(S) == CHOOSE x \in S : \A y \in S : x <= y

\* layers.find(l => l.type === 'user')
RECURSIVE FindFrom(_, _)
FindFrom(ls, i) ==
    IF i > Len(ls) THEN None
    ELSE IF ls[i].type = "user" THEN Some(ls[i])
    ELSE FindFrom(ls, i + 1)

FindUserLayer(ls) == FindFrom(ls, 1)

\* layer.fx?.<field>, and its truthiness as JavaScript's || and && read it
FxField(layer, field) == IF layer.fx = None THEN None ELSE layer.fx[1][field]

Truthy(o) == o # None /\ o[1] # 0

\* ids the environment hands out: setTimeout's return value, a new source node
FreeTimers(pending) == (1..MaxTimers) \ pending

\* a new node is none of the nodes still sounding or still held in a field
FreeSources ==
    (1..MaxSources) \ (sounding \cup {userGainNode[i].chain : i \in 1..Len(userGainNode)})

----------------------------------------------------------------------------
(* Scheduling: nextNote, playNote, scheduleNotesForBeat, scheduler *)

\* The number Infinity, which 60.0 / 0 evaluates to; no finite time of the model
\* comes near it.
Infinity == 1000000000

\* x + y where either may be Infinity
Plus(x, y) == IF x = Infinity \/ y = Infinity THEN Infinity ELSE x + y

\* 0.25 * (60.0 / bpm) seconds, in ms
StepInterval(bpm) ==
    IF bpm = 0 THEN Infinity ELSE (QuarterBeat * (60000 \div bpm)) \div 1000

\* The value standing for nextNoteTime once the while loop of scheduler() runs with a
\* negative step interval: the time decreases at every pass, the loop condition stays
\* true and scheduler() never returns.
Diverged == 0 - Infinity

Hung == nextNoteTime = Diverged

\* nextNote() wrapping only once the cursor has passed the loop length
NextNote_LateWrap(time, beat) ==
    [nextNoteTime |-> time + StepInterval(tempo),
     currentBeat  |-> IF beat + QuarterBeat > LoopBeats THEN 0 ELSE beat + QuarterBeat]

\* nextNote() advancing the time by a half beat for each quarter-beat step
NextNote_HalfBeat(time, beat) ==
    [nextNoteTime |-> time + 2 * StepInterval(tempo),
     currentBeat  |-> IF beat + QuarterBeat >= LoopBeats THEN 0 ELSE beat + QuarterBeat]

\* nextNote() taking the step interval of the tempo the engine was constructed with
NextNote_DefaultTempo(time, beat) ==
    [nextNoteTime |-> Plus(time, StepInterval(DefaultTempo)),
     currentBeat  |-> IF beat + QuarterBeat >= LoopBeats THEN 0 ELSE beat + QuarterBeat]

NextNote(time, beat) ==
    [nextNoteTime |-> Plus(time, StepInterval(tempo)),
     currentBeat  |-> IF beat + QuarterBeat >= LoopBeats THEN 0 ELSE beat + QuarterBeat]

\* instrument.toLowerCase() and type.includes(word)
Upper == <<"A", "B", "C", "D", "E", "F", "G", "H", "I", "J", "K", "L", "M",
           "N", "O", "P", "Q", "R", "S", "T", "U", "V", "W", "X", "Y", "Z">>

Lower == <<"a", "b", "c", "d", "e", "f", "g", "h", "i", "j", "k", "l", "m",
           "n", "o", "p", "q", "r", "s", "t", "u", "v", "w", "x", "y", "z">>

\* the instrument tag compared as it is written
ToLowerCase_AsWritten(str) == str

ToLowerCase(str) ==
    [i \in 1..Len(str) |->
        IF \E u \in 1..Len(Upper) : Upper[u] = str[i]
        THEN Lower[CHOOSE u \in 1..Len(Upper) : Upper[u] = str[i]]
        ELSE str[i]]

Includes(str, word) ==
    \E i \in 0..(Len(str) - Len(word)) : SubSeq(str, i + 1, i + Len(word)) = word

Kick == <<"k", "i", "c", "k">>
Drum == <<"d", "r", "u", "m">>
Bass == <<"b", "a", "s", "s">>

\* the level kept above a floor of 0.01
NoteVol_Floor(volume, velocity) == 2 * volume * velocity + 254

\* (volume / 100) * (note.velocity / 127), in units of 1/25400
NoteVol(volume, velocity) == 2 * volume * velocity

\* the note's length converted at the tempo the engine was constructed with
DurationMs_DefaultTempo(duration) == (duration * 60) \div DefaultTempo

\* note.duration * (60 / this.tempo) seconds, in ms
DurationMs(duration) == (duration * 60) \div tempo

\* playNote(): the oscillator it starts at `time`, with the level its gain is set to
\* at `time`, where the bass decay begins, and the time the oscillator is stopped at.
PlayNote(note, instrument, time, volume) ==
    LET type == ToLowerCase(instrument)
        vol  == NoteVol(volume, note.velocity)
    IN  IF Includes(type, Kick) \/ Includes(type, Drum)
        THEN [note |-> note, instrument |-> instrument, time |-> time, volume |-> volume,
              oscType |-> "sine", gain |-> vol, decay |-> None,
              stop |-> time + 500]
        ELSE IF Includes(type, Bass)
        THEN [note |-> note, instrument |-> instrument, time |-> time, volume |-> volume,
              oscType |-> "sawtooth", gain |-> vol,
              decay |-> Some(time + (note.duration * 4) \div 10),
              stop |-> time + DurationMs(note.duration)]
        ELSE [note |-> note, instrument |-> instrument, time |-> time, volume |-> volume,
              oscType |-> "triangle", gain |-> vol \div 2, decay |-> None,
              stop |-> time + 1000]

\* Math.abs(note.startTime - beat) < 0.1 is evaluated on IEEE-754 doubles.  The cursor
\* values are multiples of 0.25 and exact; a start time and the tolerance are the
\* doubles nearest to their decimals.  Pow2(n) is 2^n and Pow2Mod(n, m) is 2^n mod m.
RECURSIVE Pow2(_)
Pow2(n) == IF n = 0 THEN 1 ELSE 2 * Pow2(n - 1)

RECURSIVE Pow2Mod(_, _)
Pow2Mod(n, m) == IF n = 0 THEN 1 % m ELSE (2 * Pow2Mod(n - 1, m)) % m

\* The binary exponent e of the decimal k/1000, k > 0: 2^e <= k/1000 < 2^(e+1).
Exponent(k) ==
    CHOOSE e \in (0 - 10)..14 :
        IF e >= 0 THEN 1000 * Pow2(e) <= k /\ k < 1000 * Pow2(e + 1)
        ELSE Pow2(0 - e - 1) * k < 1000 /\ 1000 <= Pow2(0 - e) * k

\* The double nearest to the decimal k/1000, less that decimal, in units of
\* 2^-56 / 125, for k/1000 of magnitude 0.0625 or more.  The double is a multiple of
\* 2^(e-52); k/1000 is (k * 2^(49-e)) / 125 of these, so the remainder r of that
\* numerator by 125 tells how far the decimal lies above the multiple below it.
DoubleError(k) ==
    IF k = 0 THEN 0
    ELSE LET e == Exponent(Abs(k))
             r == ((Abs(k) % 125) * Pow2Mod(49 - e, 125)) % 125
             err == (IF r <= 62 THEN 0 - r ELSE 125 - r) * Pow2(4 + e)
         IN  IF k > 0 THEN err ELSE 0 - err

\* The test of scheduleNotesForBeat().  A distance of less or more than 0.1 by a
\* thousandth of a beat is decided by the decimals; at a distance of 0.1 as written,
\* the difference of the doubles (which the subtraction yields exactly) is compared
\* with the double 0.1.
WithinTolerance(startTime, beat) ==
    LET d == Abs(startTime - beat)
    IN  \/ d < NoteTolerance
        \/ /\ d = NoteTolerance
           /\ (IF startTime > beat THEN DoubleError(startTime)
               ELSE 0 - DoubleError(startTime)) < DoubleError(NoteTolerance)

\* scheduleNotesForBeat() matching a note within a whole step of the cursor
NotesOfLayer_WholeStep(layer, beat, time) ==
    IF ~layer.isActive \/ layer.notes = None \/ layer.type = "user" THEN <<>>
    ELSE LET hits == SelectSeq(layer.notes[1],
                               LAMBDA n : Abs(n.startTime - beat) <= QuarterBeat)
         IN  [i \in 1..Len(hits) |-> PlayNote(hits[i], layer.instrument, time, layer.volume)]

\* scheduleNotesForBeat() playing the notes of every active layer that has some
NotesOfLayer_AnyType(layer, beat, time) ==
    IF ~layer.isActive \/ layer.notes = None THEN <<>>
    ELSE LET hits == SelectSeq(layer.notes[1],
                               LAMBDA n : WithinTolerance(n.startTime, beat))
         IN  [i \in 1..Len(hits) |-> PlayNote(hits[i], layer.instrument, time, layer.volume)]

NotesOfLayer(layer, beat, time) ==
    IF ~layer.isActive \/ layer.notes = None \/ layer.type = "user" THEN <<>>
    ELSE LET hits == SelectSeq(layer.notes[1],
                               LAMBDA n : WithinTolerance(n.startTime, beat))
         IN  [i \in 1..Len(hits) |-> PlayNote(hits[i], layer.instrument, time, layer.volume)]

RECURSIVE NotesFrom(_, _, _, _)
NotesFrom(ls, i, beat, time) ==
    IF i > Len(ls) THEN <<>>
    ELSE NotesOfLayer(ls[i], beat, time) \o NotesFrom(ls, i + 1, beat, time)

ScheduleNotesForBeat(beat, time) == NotesFrom(layers, 1, beat, time)

\* One dispatched step, as the history variable records it.
Step(beat, time) ==
    [beat |-> beat, time |-> time, tempo |-> tempo,
     played |-> ScheduleNotesForBeat(beat, time)]

\* the loop also taking a step that falls on the end of the lookahead window
Looping_Inclusive(c) ==
    c.nextNoteTime # Diverged /\ c.nextNoteTime <= currentTime + scheduleAheadTime

\* The condition of the while loop of scheduler(), for the cursor c.
Looping(c) ==
    c.nextNoteTime # Diverged /\ c.nextNoteTime < currentTime + scheduleAheadTime

\* One pass of the loop from the cursor c = [nextNoteTime, currentBeat, dispatched],
\* and c itself once the loop has ended.  A pass that moves the time backwards is
\* followed by passes without end, of which the history records none.
Pass(c) ==
    IF ~Looping(c) THEN c
    ELSE LET n == NextNote(c.nextNoteTime, c.currentBeat)
         IN  IF n.nextNoteTime < c.nextNoteTime
             THEN [c EXCEPT !.nextNoteTime = Diverged]
             ELSE [nextNoteTime |-> n.nextNoteTime, currentBeat |-> n.currentBeat,
                   dispatched |-> Append(c.dispatched,
                                         Step(c.currentBeat, c.nextNoteTime))]

\* The loop, run on a one-element set of cursors so that every pass starts from the
\* value the pass before produced, eight passes at each level of the recursion.
PassAll(cs) == {Pass(c) : c \in cs}

RECURSIVE Passes(_)
Passes(cs) ==
    UNION { IF Looping(c)
            THEN Passes(PassAll(PassAll(PassAll(PassAll(
                        PassAll(PassAll(PassAll(PassAll({c})))))))))
            ELSE {c} : c \in cs }

\* The while loop of scheduler().
SchedulerLoop(time, beat, log) ==
    CHOOSE c \in Passes({[nextNoteTime |-> time, currentBeat |-> beat,
                          dispatched |-> log]}) : TRUE

\* scheduler() returning without arming the next tick
Scheduler_NoRearm(time, beat, log, playing, pending) ==
    LET r == SchedulerLoop(time, beat, log)
    IN  /\ nextNoteTime' = r.nextNoteTime
        /\ currentBeat' = r.currentBeat
        /\ dispatched' = r.dispatched
        /\ timerID' = timerID
        /\ timers' = pending

\* scheduler(), entered with the given cursor and with `pending` timers armed.  Its
\* callers run after initAudio, so the `!this.ctx` return is never taken.  The next
\* tick is armed once the loop has ended.
Scheduler(time, beat, log, playing, pending) ==
    LET r == SchedulerLoop(time, beat, log)
    IN  /\ nextNoteTime' = r.nextNoteTime
        /\ currentBeat' = r.currentBeat
        /\ dispatched' = r.dispatched
        /\ IF playing /\ r.nextNoteTime # Diverged
           THEN /\ FreeTimers(pending) # {}
                /\ timerID' = Min(FreeTimers(pending))
                /\ timers' = pending \cup {timerID'}
           ELSE /\ timerID' = timerID
                /\ timers' = pending

----------------------------------------------------------------------------
(* User audio: updateUserAudioFX, startUserAudio *)

\* n = [source, gain, filter, reverb]: the four node fields as the call finds them.
UpdateUserAudioFX(layer, n) ==
    [source |-> IF n.source # None /\ Truthy(FxField(layer, "playbackRate"))
                THEN Some([n.source[1] EXCEPT !.playbackRate = FxField(layer, "playbackRate")[1]])
                ELSE n.source,
     gain   |-> IF n.gain # None
                THEN Some([n.gain[1] EXCEPT !.gain = IF layer.isActive THEN layer.volume ELSE 0])
                ELSE n.gain,
     filter |-> IF n.filter # None
                THEN Some([n.filter[1] EXCEPT !.frequency =
                             IF Truthy(FxField(layer, "filterFreq"))
                             THEN FxField(layer, "filterFreq")[1] ELSE 20000])
                ELSE n.filter,
     reverb |-> IF n.reverb # None
                THEN Some([n.reverb[1] EXCEPT !.gain =
                             IF Truthy(FxField(layer, "reverb"))
                             THEN FxField(layer, "reverb")[1] ELSE 0])
                ELSE n.reverb]

UserNodes ==
    [source |-> userSourceNode, gain |-> userGainNode,
     filter |-> userFilterNode, reverb |-> userReverbGain]

SetUserNodes(n) ==
    /\ userSourceNode' = n.source
    /\ userGainNode' = n.gain
    /\ userFilterNode' = n.filter
    /\ userReverbGain' = n.reverb

\* A new source on the decoded buffer with its filter, dry gain and reverb send, each
\* at the Web Audio default of its parameter (gain 1, rate 1, cutoff 350 Hz).
NewChain(id) ==
    [source |-> Some([id |-> id, buffer |-> userAudioBuffer[1], playbackRate |-> 100]),
     gain   |-> Some([chain |-> id, gain |-> 100]),
     filter |-> Some([chain |-> id, frequency |-> 350]),
     reverb |-> Some([chain |-> id, gain |-> 100])]

\* startUserAudio(), called by start() after initAudio (ctx is set).
StartUserAudio ==
    LET userLayer == FindUserLayer(layers)
    IN  IF userAudioBuffer = None \/ userLayer = None
        THEN UNCHANGED <<userSourceNode, userGainNode, userFilterNode, userReverbGain, sounding>>
        ELSE IF ~userLayer[1].isActive
        THEN UNCHANGED <<userSourceNode, userGainNode, userFilterNode, userReverbGain, sounding>>
        ELSE /\ FreeSources # {}
             /\ LET id == Min(FreeSources)
                IN  /\ SetUserNodes(UpdateUserAudioFX(userLayer[1], NewChain(id)))
                    /\ sounding' = sounding \cup {id}

----------------------------------------------------------------------------
(* The engine's public operations *)

\* The fields of the engine as the constructor leaves them, and an untouched environment.
Constructed ==
    /\ ctx = FALSE
    /\ currentTime = 0
    /\ isPlaying = FALSE
    /\ userAudioBuffer = None
    /\ userSourceNode = None
    /\ userGainNode = None
    /\ userFilterNode = None
    /\ userReverbGain = None
    /\ nextNoteTime = 0
    /\ currentBeat = 0
    /\ timerID = NoTimer
    /\ timers = {}
    /\ sounding = {}
    /\ loads = {}

\* start() once it is past its isPlaying guard, with the cursor set to `beat`.
StartPlayback(beat) ==
    /\ isPlaying' = TRUE
    /\ StartUserAudio
    /\ Scheduler(currentTime + StartOffset, beat, <<>>, TRUE, timers)
    /\ UNCHANGED <<currentTime, layers, tempo, userAudioBuffer, loads>>

\* start() lacking the guard that makes it a no-op while Playing
Start_NoGuard ==
    /\ ctx' = TRUE
    /\ StartPlayback(0)

\* start() resuming at the cursor the earlier session left
Start_Resume ==
    /\ ctx' = TRUE
    /\ IF isPlaying
       THEN UNCHANGED <<currentTime, isPlaying, layers, tempo, userAudioBuffer,
                        userSourceNode, userGainNode, userFilterNode, userReverbGain,
                        nextNoteTime, currentBeat, timerID, timers, sounding, loads,
                        dispatched>>
       ELSE StartPlayback(currentBeat)

Start ==
    /\ ctx' = TRUE
    /\ IF isPlaying
       THEN UNCHANGED <<currentTime, isPlaying, layers, tempo, userAudioBuffer,
                        userSourceNode, userGainNode, userFilterNode, userReverbGain,
                        nextNoteTime, currentBeat, timerID, timers, sounding, loads,
                        dispatched>>
       ELSE StartPlayback(0)

\* stop() dropping its reference to the source without stopping the node
Stop_Leak ==
    /\ isPlaying' = FALSE
    /\ timers' = timers \ {timerID}
    /\ userSourceNode' = None
    /\ UNCHANGED <<ctx, currentTime, layers, tempo, userAudioBuffer, userGainNode,
                   userFilterNode, userReverbGain, nextNoteTime, currentBeat, timerID,
                   sounding, loads, dispatched>>

\* stop() that leaves the pending timer armed
Stop_NoClear ==
    /\ isPlaying' = FALSE
    /\ IF userSourceNode # None
       THEN /\ sounding' = sounding \ {userSourceNode[1].id}
            /\ userSourceNode' = None
       ELSE UNCHANGED <<sounding, userSourceNode>>
    /\ UNCHANGED <<ctx, currentTime, layers, tempo, userAudioBuffer, userGainNode,
                   userFilterNode, userReverbGain, nextNoteTime, currentBeat, timerID,
                   timers, loads, dispatched>>

\* stop() written as a play/pause toggle
Stop_Toggle ==
    IF isPlaying
    THEN /\ isPlaying' = FALSE
         /\ timers' = timers \ {timerID}
         /\ IF userSourceNode # None
            THEN /\ sounding' = sounding \ {userSourceNode[1].id}
                 /\ userSourceNode' = None
            ELSE UNCHANGED <<sounding, userSourceNode>>
         /\ UNCHANGED <<ctx, currentTime, layers, tempo, userAudioBuffer, userGainNode,
                        userFilterNode, userReverbGain, nextNoteTime, currentBeat,
                        timerID, loads, dispatched>>
    ELSE /\ ctx
         /\ UNCHANGED ctx
         /\ StartPlayback(currentBeat)

Stop ==
    /\ isPlaying' = FALSE
    /\ timers' = timers \ {timerID}
    /\ IF userSourceNode # None
       THEN /\ sounding' = sounding \ {userSourceNode[1].id}
            /\ userSourceNode' = None
       ELSE UNCHANGED <<sounding, userSourceNode>>
    /\ UNCHANGED <<ctx, currentTime, layers, tempo, userAudioBuffer, userGainNode,
                   userFilterNode, userReverbGain, nextNoteTime, currentBeat, timerID,
                   loads, dispatched>>

\* setLayers() starting the loop source itself when a buffer has arrived since start()
SetLayers_StartLoop(ls) ==
    /\ layers' = ls
    /\ LET userLayer == FindUserLayer(ls)
       IN  IF userLayer # None /\ isPlaying /\ ctx
           THEN IF /\ userSourceNode = None
                   /\ userAudioBuffer # None
                   /\ userLayer[1].isActive
                   /\ FreeSources # {}
                THEN /\ SetUserNodes(UpdateUserAudioFX(userLayer[1], NewChain(Min(FreeSources))))
                     /\ sounding' = sounding \cup {Min(FreeSources)}
                ELSE /\ SetUserNodes(UpdateUserAudioFX(userLayer[1], UserNodes))
                     /\ sounding' = sounding
           ELSE UNCHANGED <<userSourceNode, userGainNode, userFilterNode, userReverbGain,
                            sounding>>
    /\ UNCHANGED <<ctx, currentTime, isPlaying, tempo, userAudioBuffer, nextNoteTime,
                   currentBeat, timerID, timers, loads, dispatched>>

\* setLayers() silencing the loop when the list it is given has no user-audio layer
SetLayers_MuteMissing(ls) ==
    /\ layers' = ls
    /\ LET userLayer == FindUserLayer(ls)
       IN  IF userLayer # None /\ isPlaying /\ ctx
           THEN SetUserNodes(UpdateUserAudioFX(userLayer[1], UserNodes))
           ELSE IF userLayer = None /\ isPlaying /\ userGainNode # None
           THEN /\ userGainNode' = Some([userGainNode[1] EXCEPT !.gain = 0])
                /\ UNCHANGED <<userSourceNode, userFilterNode, userReverbGain>>
           ELSE UNCHANGED <<userSourceNode, userGainNode, userFilterNode, userReverbGain>>
    /\ UNCHANGED <<ctx, currentTime, isPlaying, tempo, userAudioBuffer, nextNoteTime,
                   currentBeat, timerID, timers, sounding, loads, dispatched>>

\* setLayers() adding the layers it is given to those the engine holds
SetLayers_Append(ls) ==
    /\ layers' = layers \o ls
    /\ LET userLayer == FindUserLayer(ls)
       IN  IF userLayer # None /\ isPlaying /\ ctx
           THEN SetUserNodes(UpdateUserAudioFX(userLayer[1], UserNodes))
           ELSE UNCHANGED <<userSourceNode, userGainNode, userFilterNode, userReverbGain>>
    /\ UNCHANGED <<ctx, currentTime, isPlaying, tempo, userAudioBuffer, nextNoteTime,
                   currentBeat, timerID, timers, sounding, loads, dispatched>>

SetLayers(ls) ==
    /\ layers' = ls
    /\ LET userLayer == FindUserLayer(ls)
       IN  IF userLayer # None /\ isPlaying /\ ctx
           THEN SetUserNodes(UpdateUserAudioFX(userLayer[1], UserNodes))
           ELSE UNCHANGED <<userSourceNode, userGainNode, userFilterNode, userReverbGain>>
    /\ UNCHANGED <<ctx, currentTime, isPlaying, tempo, userAudioBuffer, nextNoteTime,
                   currentBeat, timerID, timers, sounding, loads, dispatched>>

\* setBpm() restarting the step grid from the current clock
SetBpm_Reschedule(bpm) ==
    /\ tempo' = bpm
    /\ nextNoteTime' = currentTime + StartOffset
    /\ UNCHANGED <<ctx, currentTime, isPlaying, layers, userAudioBuffer, userSourceNode,
                   userGainNode, userFilterNode, userReverbGain,
                   currentBeat, timerID, timers, sounding, loads, dispatched>>

SetBpm(bpm) ==
    /\ tempo' = bpm
    /\ UNCHANGED <<ctx, currentTime, isPlaying, layers, userAudioBuffer, userSourceNode,
                   userGainNode, userFilterNode, userReverbGain, nextNoteTime,
                   currentBeat, timerID, timers, sounding, loads, dispatched>>

\* loadUserAudio up to its await: the decode completes later, in DecodeDone.
LoadUserAudio(f) ==
    /\ f \notin loads
    /\ ctx' = TRUE
    /\ loads' = loads \cup {f}
    /\ UNCHANGED <<currentTime, isPlaying, layers, tempo, userAudioBuffer, userSourceNode,
                   userGainNode, userFilterNode, userReverbGain, nextNoteTime,
                   currentBeat, timerID, timers, sounding, dispatched>>

\* How the awaits of loadUserAudio(f) end, and what the promise it returned gives the
\* caller: a rejection when arrayBuffer() rejects, outside the try block, and
\* otherwise undefined, the function having no return statement.
LoadOutcome(f) ==
    IF ~Readable(f) THEN <<"unread", "rejected">>
    ELSE IF ~Decodable(f) THEN <<"failed", "undefined">>
    ELSE <<"decoded", "undefined">>

\* a decoded buffer stored only while the engine holds none
DecodeDone_KeepFirst(f) ==
    /\ f \in loads
    /\ loads' = loads \ {f}
    /\ userAudioBuffer' = IF LoadOutcome(f)[1] = "decoded" /\ userAudioBuffer = None
                          THEN Some(f) ELSE userAudioBuffer
    /\ UNCHANGED <<ctx, currentTime, isPlaying, layers, tempo, userSourceNode,
                   userGainNode, userFilterNode, userReverbGain, nextNoteTime,
                   currentBeat, timerID, timers, sounding, dispatched>>

\* The awaits of loadUserAudio settle: the decoded buffer is stored, or the rejection
\* of decodeAudioData is caught and logged, or the rejection of arrayBuffer() ends the
\* call before the decode.
DecodeDone(f) ==
    /\ f \in loads
    /\ loads' = loads \ {f}
    /\ userAudioBuffer' = IF LoadOutcome(f)[1] = "decoded" THEN Some(f) ELSE userAudioBuffer
    /\ UNCHANGED <<ctx, currentTime, isPlaying, layers, tempo, userSourceNode,
                   userGainNode, userFilterNode, userReverbGain, nextNoteTime,
                   currentBeat, timerID, timers, sounding, dispatched>>

\* A pending timer fires and runs scheduler().  The 25 ms delay is host time; the audio
\* clock the scheduler reads may have advanced by any amount since the timer was armed.
TimerFire(id) ==
    /\ id \in timers
    /\ Scheduler(nextNoteTime, currentBeat, dispatched, isPlaying, timers \ {id})
    /\ UNCHANGED <<ctx, currentTime, isPlaying, layers, tempo, userAudioBuffer,
                   userSourceNode, userGainNode, userFilterNode, userReverbGain,
                   sounding, loads>>

\* The audio clock runs once the context exists; the model follows it up to `limit`.
AdvanceClock(limit) ==
    /\ ctx
    /\ currentTime + Quantum <= limit
    /\ currentTime' = currentTime + Quantum
    /\ UNCHANGED <<ctx, isPlaying, layers, tempo, userAudioBuffer, userSourceNode,
                   userGainNode, userFilterNode, userReverbGain, nextNoteTime,
                   currentBeat, timerID, timers, sounding, loads, dispatched>>

----------------------------------------------------------------------------
(* The environment: which calls arrive, how many, and what the history records *)

NoHistory ==
    /\ dispatched = <<>>
    /\ calls = 0
    /\ lastOp = [op |-> "new", isPlaying |-> FALSE, currentBeat |-> 0]
    /\ session = [startedAt |-> 0, hadBuffer |-> FALSE, hadUserLayer |-> FALSE]
    /\ lastDecode = "none"
    /\ returned = {}
    /\ lastTick = 0
    /\ loadLog = <<>>

Observe(op) ==
    /\ lastOp' = [op |-> op, isPlaying |-> isPlaying, currentBeat |-> currentBeat]
    /\ session' = IF op = "start" /\ ~isPlaying
                  THEN [startedAt |-> currentTime, hadBuffer |-> userAudioBuffer # None,
                        hadUserLayer |-> FindUserLayer(layers) # None]
                  ELSE session

\* No call or callback runs while scheduler() has not returned.
Call(limit, op) ==
    /\ ~Hung
    /\ calls < limit
    /\ calls' = calls + 1
    /\ Observe(op)
    /\ lastDecode' = lastDecode
    /\ returned' = returned
    /\ lastTick' = lastTick
    /\ loadLog' = loadLog

Event(op) ==
    /\ ~Hung
    /\ calls' = calls
    /\ Observe(op)
    /\ lastDecode' = lastDecode
    /\ returned' = returned
    /\ lastTick' = lastTick
    /\ loadLog' = loadLog

Settled(f) ==
    /\ ~Hung
    /\ calls' = calls
    /\ Observe("decode")
    /\ lastDecode' = LoadOutcome(f)[1]
    /\ returned' = returned \cup {LoadOutcome(f)}
    /\ lastTick' = lastTick
    /\ loadLog' = loadLog

\* A call or an event of which the environment also records the clock at which
\* scheduler() ran: inside a start() from Stopped, and when a timer fires.
TickCall(limit, op) ==
    /\ ~Hung
    /\ calls < limit
    /\ calls' = calls + 1
    /\ Observe(op)
    /\ lastDecode' = lastDecode
    /\ returned' = returned
    /\ lastTick' = IF op = "start" /\ ~isPlaying THEN currentTime ELSE lastTick
    /\ loadLog' = loadLog

TickEvent(op) ==
    /\ ~Hung
    /\ calls' = calls
    /\ Observe(op)
    /\ lastDecode' = lastDecode
    /\ returned' = returned
    /\ lastTick' = IF op = "timer" THEN currentTime ELSE lastTick
    /\ loadLog' = loadLog

\* A call and a settling of loadUserAudio(f) of which the environment also records
\* the order.
LoadCall(limit, f) ==
    /\ ~Hung
    /\ calls < limit
    /\ calls' = calls + 1
    /\ Observe("loadUserAudio")
    /\ lastDecode' = lastDecode
    /\ returned' = returned
    /\ lastTick' = lastTick
    /\ loadLog' = Append(loadLog, <<"call", f>>)

LoadSettled(f) ==
    /\ ~Hung
    /\ calls' = calls
    /\ Observe("decode")
    /\ lastDecode' = LoadOutcome(f)[1]
    /\ returned' = returned \cup {LoadOutcome(f)}
    /\ lastTick' = lastTick
    /\ loadLog' = Append(loadLog, <<"done", f>>)

\* Every operation, in any order, over a short stretch of the audio clock.
Init ==
    /\ Constructed
    /\ layers = <<>>
    /\ tempo = DefaultTempo
    /\ NoHistory

Next ==
    \/ Call(MaxCalls, "start") /\ Start
    \/ Call(MaxCalls, "stop") /\ Stop
    \/ \E ls \in LayerLists : Call(MaxCalls, "setLayers") /\ SetLayers(ls)
    \/ \E bpm \in Tempos : Call(MaxCalls, "setBpm") /\ SetBpm(bpm)
    \/ \E f \in Files : Call(MaxCalls, "loadUserAudio") /\ LoadUserAudio(f)
    \/ \E f \in Files : Settled(f) /\ DecodeDone(f)
    \/ \E id \in timers : Event("timer") /\ TimerFire(id)
    \/ Event("clock") /\ AdvanceClock(MaxTime)

Spec == Init /\ [][Next]_vars

\* Playback of a composition and tempo set before the first start(), followed beyond
\* one pass of the loop.
InitLoop ==
    /\ Constructed
    /\ layers \in LayerLists
    /\ tempo \in Tempos
    /\ NoHistory

NextLoop ==
    \/ Call(MaxLoopCalls, "start") /\ Start
    \/ Call(MaxLoopCalls, "stop") /\ Stop
    \/ \E bpm \in Tempos : Call(MaxLoopCalls, "setBpm") /\ SetBpm(bpm)
    \/ \E id \in timers : Event("timer") /\ TimerFire(id)
    \/ Event("clock") /\ AdvanceClock(MaxLoopTime)

SpecLoop == InitLoop /\ [][NextLoop]_vars

\* The first steps of a session on a composition of any of the synthesized timbres,
\* levels and layer kinds, at a tempo set before or after start().
InitSynth ==
    /\ Constructed
    /\ layers \in SynthLayerLists \cup GridLayerLists \cup TagLayerLists
    /\ tempo \in Tempos
    /\ NoHistory

NextSynth ==
    \/ Call(MaxSynthCalls, "start") /\ Start
    \/ \E bpm \in Tempos : Call(MaxSynthCalls, "setBpm") /\ SetBpm(bpm)
    \/ \E id \in timers : Event("timer") /\ TimerFire(id)
    \/ Event("clock") /\ AdvanceClock(MaxSynthTime)

SpecSynth == InitSynth /\ [][NextSynth]_vars

\* Live FX edits: a user-audio take is loaded, playback starts, and the layer list is
\* replaced with other FX settings while the loop plays.
InitFx ==
    /\ Constructed
    /\ layers \in FxLayerLists
    /\ tempo = DefaultTempo
    /\ NoHistory

NextFx ==
    \/ Call(MaxFxCalls, "start") /\ Start
    \/ Call(MaxFxCalls, "stop") /\ Stop
    \/ \E ls \in FxLayerLists : Call(MaxFxCalls, "setLayers") /\ SetLayers(ls)
    \/ \E f \in {g \in Files : Decodable(g)} :
          Call(MaxFxCalls, "loadUserAudio") /\ LoadUserAudio(f)
    \/ \E f \in Files : Settled(f) /\ DecodeDone(f)
    \/ \E id \in timers : Event("timer") /\ TimerFire(id)
    \/ Event("clock") /\ AdvanceClock(MaxFxTime)

SpecFx == InitFx /\ [][NextFx]_vars

\* Uploads of usable, corrupt and unreadable files, one after another or overlapping,
\* around the start and stop of playback.
InitLoad ==
    /\ Constructed
    /\ layers = <<UserLayer(TRUE, 80), BassLayer(TRUE)>>
    /\ tempo = DefaultTempo
    /\ NoHistory

NextLoad ==
    \/ \E f \in LoadFiles : Call(MaxLoadCalls, "loadUserAudio") /\ LoadUserAudio(f)
    \/ \E f \in LoadFiles : Settled(f) /\ DecodeDone(f)
    \/ Call(MaxLoadCalls, "start") /\ Start
    \/ Call(MaxLoadCalls, "stop") /\ Stop
    \/ \E id \in timers : Event("timer") /\ TimerFire(id)
    \/ Event("clock") /\ AdvanceClock(MaxLoadTime)

SpecLoad == InitLoad /\ [][NextLoad]_vars

\* Uploads that overlap: a second file is chosen while the first is still decoding,
\* and the decodes complete in either order, before or after start().
InitOverlap ==
    /\ Constructed
    /\ layers = <<UserLayer(TRUE, 80), BassLayer(TRUE)>>
    /\ tempo = DefaultTempo
    /\ NoHistory

NextOverlap ==
    \/ \E f \in LoadFiles : LoadCall(MaxOverlapCalls, f) /\ LoadUserAudio(f)
    \/ \E f \in LoadFiles : LoadSettled(f) /\ DecodeDone(f)
    \/ Call(MaxOverlapCalls, "start") /\ Start
    \/ Call(MaxOverlapCalls, "stop") /\ Stop
    \/ \E id \in timers : Event("timer") /\ TimerFire(id)
    \/ Event("clock") /\ AdvanceClock(MaxOverlapTime)

SpecOverlap == InitOverlap /\ [][NextOverlap]_vars

\* Tempo changes to any number, zero and negative included, around start and stop.
InitTempo ==
    /\ Constructed
    /\ layers \in {<<>>, <<SynthLayer(<<"K", "i", "c", "k">>, TRUE, 80,
                                      Some(<<NoteOf(0, 500, 100)>>))>>}
    /\ tempo = DefaultTempo
    /\ NoHistory

NextTempo ==
    \/ Call(MaxTempoCalls, "start") /\ Start
    \/ Call(MaxTempoCalls, "stop") /\ Stop
    \/ \E bpm \in AnyTempos : Call(MaxTempoCalls, "setBpm") /\ SetBpm(bpm)
    \/ \E id \in timers : Event("timer") /\ TimerFire(id)
    \/ Event("clock") /\ AdvanceClock(MaxTempoTime)

SpecTempo == InitTempo /\ [][NextTempo]_vars

\* Whole passes of the loop over notes on, next to and between the cursor values.
InitGrid ==
    /\ Constructed
    /\ layers \in EdgeLayerLists
    /\ tempo \in Tempos
    /\ NoHistory

NextGrid ==
    \/ Call(MaxGridCalls, "start") /\ Start
    \/ Call(MaxGridCalls, "stop") /\ Stop
    \/ \E id \in timers : Event("timer") /\ TimerFire(id)
    \/ Event("clock") /\ AdvanceClock(MaxGridTime)

SpecGrid == InitGrid /\ [][NextGrid]_vars

\* Ticks at any spacing: the host fires a timer early or late against the audio
\* clock, and the clock of every run of scheduler() is recorded.
InitClock ==
    /\ Constructed
    /\ layers \in LayerLists
    /\ tempo \in Tempos
    /\ NoHistory

NextClock ==
    \/ TickCall(MaxClockCalls, "start") /\ Start
    \/ TickCall(MaxClockCalls, "stop") /\ Stop
    \/ \E bpm \in Tempos : TickCall(MaxClockCalls, "setBpm") /\ SetBpm(bpm)
    \/ \E id \in timers : TickEvent("timer") /\ TimerFire(id)
    \/ TickEvent("clock") /\ AdvanceClock(MaxClockTime)

SpecClock == InitClock /\ [][NextClock]_vars

\* Playback left running: the host fires every timer it was handed and the audio
\* clock keeps advancing, up to the end of the stretch of time the model follows.
InitLive ==
    /\ Constructed
    /\ layers = <<UserLayer(TRUE, 80), BassLayer(TRUE)>>
    /\ tempo \in Tempos
    /\ NoHistory

NextLive ==
    \/ Call(MaxLiveCalls, "start") /\ Start
    \/ Call(MaxLiveCalls, "stop") /\ Stop
    \/ \E bpm \in Tempos : Call(MaxLiveCalls, "setBpm") /\ SetBpm(bpm)
    \/ \E id \in timers : Event("timer") /\ TimerFire(id)
    \/ Event("clock") /\ AdvanceClock(MaxLiveTime)

SpecLive ==
    /\ InitLive
    /\ [][NextLive]_vars
    /\ WF_vars(\E id \in timers : Event("timer") /\ TimerFire(id))
    /\ WF_vars(Event("clock") /\ AdvanceClock(MaxLiveTime))

----------------------------------------------------------------------------
(* Properties of the start/stop lifecycle *)

engine == <<ctx, isPlaying, layers, tempo, userAudioBuffer, userSourceNode, userGainNode,
            userFilterNode, userReverbGain, nextNoteTime, currentBeat, timerID>>

environment == <<currentTime, timers, sounding, loads, dispatched>>

\* C1: at most one user-audio loop source sounds at any time, whatever the calls and
\* timer firings so far, and none sounds while the engine is Stopped.
C1_OneLoopSource ==
    /\ Cardinality(sounding) <= 1
    /\ ~isPlaying => sounding = {}

\* start() has just created the engine's second loop source (the first was created by
\* an earlier start() and stopped by stop()), and it sounds alone.
C1_Witness ==
    /\ lastOp.op = "start"
    /\ userSourceNode # None
    /\ userSourceNode[1].id = 2
    /\ sounding = {2}

\* C4: once stop() has returned no tick timer is pending, and until the next start()
\* no scheduler tick runs, the cursor does not move and no step is dispatched.
C4_NoTickAfterStop ==
    /\ [](~isPlaying => timers = {})
    /\ [][(~isPlaying /\ lastOp'.op # "start")
            => /\ lastOp'.op # "timer"
               /\ UNCHANGED <<dispatched, nextNoteTime, currentBeat>>]_vars

\* The engine was stopped in mid-session and the audio clock has since run past the
\* point where a tick would have dispatched the next step.
C4_Witness ==
    /\ ~isPlaying
    /\ lastOp.op = "clock"
    /\ dispatched # <<>>
    /\ nextNoteTime < currentTime + scheduleAheadTime

\* C5: after stop(), whatever the state it was called in, the engine is Stopped with
\* no pending tick timer and no loop source; stop() on a Stopped engine changes nothing.
C5_StopIdempotent ==
    /\ [](lastOp.op = "stop"
            => ~isPlaying /\ timers = {} /\ sounding = {} /\ userSourceNode = None)
    /\ [][(lastOp'.op = "stop" /\ ~isPlaying) => UNCHANGED <<engine, environment>>]_vars

\* stop() was called on an engine that an earlier stop() had already stopped in
\* mid-loop.
C5_Witness ==
    /\ lastOp.op = "stop"
    /\ ~lastOp.isPlaying
    /\ lastOp.currentBeat > 0

\* C6: start() while Playing leaves the cursor, the next-trigger time, the loop source
\* and the pending timer as they were.
C6_StartWhilePlayingNoop ==
    [][(lastOp'.op = "start" /\ isPlaying) => UNCHANGED <<engine, environment>>]_vars

\* start() was called while Playing, with a loop source sounding and the cursor past
\* the loop start.
C6_Witness ==
    /\ lastOp.op = "start"
    /\ lastOp.isPlaying
    /\ currentBeat > 0
    /\ sounding # {}

\* C7: right after start() on a Stopped engine, the engine is Playing, the cursor is 0,
\* the next-trigger time is the audio clock + 0.1 s and the tick timer is armed.
C7_StartFromLoopStart ==
    (lastOp.op = "start" /\ ~lastOp.isPlaying)
        => /\ isPlaying
           /\ currentBeat = 0
           /\ nextNoteTime = currentTime + StartOffset
           /\ Cardinality(timers) = 1
           /\ dispatched = <<>>

\* start() on an engine stopped in mid-loop at a later clock time: the earlier session
\* left a cursor past 0 and a next-trigger time other than clock + 0.1 s.
C7_Witness ==
    /\ lastOp.op = "start"
    /\ ~lastOp.isPlaying
    /\ lastOp.currentBeat > 0
    /\ currentTime > 0

----------------------------------------------------------------------------
(* Properties of the step grid *)

\* 0.25 beat lasts MsBeat / tempo milliseconds
MsBeat == QuarterBeat * 60

C3_StepTimes ==
    \A n \in 1..Len(dispatched) : \A T \in Tempos :
        (n <= 16 /\ \A j \in 1..(n - 1) : dispatched[j].tempo = T)
            => /\ dispatched[n].beat = (n - 1) * QuarterBeat
               /\ (dispatched[n].time - (session.startedAt + StartOffset)) * T
                     = (n - 1) * MsBeat

\* Steps 0..15 of a session started at a clock time past 0 were dispatched at one tempo.
C3_Witness ==
    /\ session.startedAt > 0
    /\ Len(dispatched) >= 16
    /\ \A j \in 1..16 : dispatched[j].tempo = dispatched[1].tempo

\* notes of `layer` equal to n that step e handed to playNote
Hits(e, layer, n) ==
    {p \in 1..Len(e.played) :
        e.played[p].note = n /\ e.played[p].instrument = layer.instrument}

RECURSIVE HitsFrom(_, _, _, _)
HitsFrom(k, count, layer, n) ==
    IF count = 0 THEN 0
    ELSE Cardinality(Hits(dispatched[k], layer, n)) + HitsFrom(k + 1, count - 1, layer, n)

OnGrid(n) ==
    n.startTime % QuarterBeat = 0 /\ n.startTime >= 0 /\ n.startTime < LoopBeats

\* C8: a note on the quarter-beat grid in an active synthesized layer is dispatched by
\* the step at its startTime and by no other, at that step's scheduled time, hence once
\* in each pass of the loop; a note at startTime 0 is dispatched by the first step
\* after start().
C8_OncePerPass ==
    \A li \in 1..Len(layers) :
        LET layer == layers[li]
        IN  (layer.isActive /\ layer.type = "ai" /\ layer.notes # None)
            => \A ni \in 1..Len(layer.notes[1]) :
                 LET n == layer.notes[1][ni]
                 IN  OnGrid(n) =>
                     /\ \A k \in 1..Len(dispatched) :
                          /\ Cardinality(Hits(dispatched[k], layer, n))
                               = IF dispatched[k].beat = n.startTime THEN 1 ELSE 0
                          /\ \A p \in Hits(dispatched[k], layer, n) :
                               dispatched[k].played[p].time = dispatched[k].time
                     /\ \A k \in 1..Len(dispatched) :
                          (dispatched[k].beat = 0 /\ k + 63 <= Len(dispatched))
                              => HitsFrom(k, 64, layer, n) = 1
                     /\ (n.startTime = 0 /\ dispatched # <<>>)
                          => Hits(dispatched[1], layer, n) # {}

\* With the bass layer active, a whole pass and step 0 of the next pass were dispatched.
C8_Witness ==
    /\ \E li \in 1..Len(layers) : layers[li].isActive /\ layers[li].type = "ai"
    /\ \E k \in 1..Len(dispatched) :
         dispatched[k].beat = 0 /\ k + 64 <= Len(dispatched)
         /\ dispatched[k + 64].played # <<>>

----------------------------------------------------------------------------
(* Properties of the user-audio layer *)

\* C9: in a session started with a decoded buffer and a user-audio layer, setLayers
\* with the layer inactive leaves no sounding source with a dry-gain target other than
\* 0, and setLayers with the layer active leaves the target volume/100 on the gain of
\* a sounding loop source.
C9_ToggleUserLayer ==
    LET userLayer == FindUserLayer(layers)
    IN  (/\ lastOp.op = "setLayers"
         /\ isPlaying
         /\ userAudioBuffer # None
         /\ session.hadBuffer
         /\ session.hadUserLayer
         /\ userLayer # None)
        => IF userLayer[1].isActive
           THEN /\ userGainNode # None
                /\ userGainNode[1].gain = userLayer[1].volume
                /\ userGainNode[1].chain \in sounding
           ELSE sounding # {}
                  => /\ userGainNode # None
                     /\ userGainNode[1].chain \in sounding
                     /\ userGainNode[1].gain = 0

\* C10: a start() made when the decode that settled last had failed creates no loop
\* source, and begins playback as usual.
C10_FailedDecodeSilences ==
    (lastOp.op = "start" /\ ~lastOp.isPlaying /\ lastDecode = "failed")
        => /\ sounding = {}
           /\ isPlaying
           /\ timers # {}

----------------------------------------------------------------------------
(* Properties of the synthesized notes *)

Clamp(x, lo, hi) == IF x < lo THEN lo ELSE IF x > hi THEN hi ELSE x

\* the level 1.0, in units of 1/25400
FullLevel == 2 * 100 * 127

\* C12: whatever the volume and velocity, a note's level is the one computed from the
\* volume clamped to 0..100 and the velocity clamped to 0..127 (halved for the lead
\* timbre), hence within 0..1, and the dry-gain target of the user audio is within 0..1.
C12_ClampedGain ==
    /\ \A k \in 1..Len(dispatched) : \A p \in 1..Len(dispatched[k].played) :
          LET osc == dispatched[k].played[p]
              vol == NoteVol(Clamp(osc.volume, 0, 100), Clamp(osc.note.velocity, 0, 127))
          IN  /\ osc.gain >= 0
              /\ osc.gain <= FullLevel
              /\ osc.gain = IF osc.oscType = "triangle" THEN vol \div 2 ELSE vol
    /\ userGainNode # None => userGainNode[1].gain \in 0..100

\* C13: an oscillator is stopped at a time fixed by its timbre: 0.5 s after its trigger
\* time for the percussive timbre and 1.0 s after it for the lead timbre, whatever the
\* note's duration, and duration * 60/tempo seconds after it for the bass timbre, with
\* the tempo in force when the step is dispatched.
C13_StopTime ==
    \A k \in 1..Len(dispatched) : \A p \in 1..Len(dispatched[k].played) :
        LET osc == dispatched[k].played[p]
        IN  /\ osc.time = dispatched[k].time
            /\ osc.oscType = "sine" => osc.stop = osc.time + 500
            /\ osc.oscType = "triangle" => osc.stop = osc.time + 1000
            /\ osc.oscType = "sawtooth"
                  => (osc.stop - osc.time) * dispatched[k].tempo = osc.note.duration * 60

\* A tick has dispatched a four-beat bass note at 3000 BPM, to be stopped 80 ms after
\* its trigger.
C13_Witness ==
    /\ lastOp.op = "timer"
    /\ \E k \in 1..Len(dispatched) : \E p \in 1..Len(dispatched[k].played) :
          LET osc == dispatched[k].played[p]
          IN  /\ osc.oscType = "sawtooth"
              /\ osc.note.duration = 4000
              /\ dispatched[k].tempo = 3000
              /\ osc.stop = osc.time + 80

----------------------------------------------------------------------------
(* Properties of the live FX updates *)

OrElse(o, default) == IF o = None THEN default ELSE o[1]

\* C14: right after setLayers while Playing with a user-audio layer in the list and a
\* loop source in place, the targets are: dry gain volume/100 if the layer is active
\* and 0 otherwise, playback rate fx.playbackRate or 1.0 when absent, cutoff
\* fx.filterFreq or 20000 Hz when absent, reverb send fx.reverb or 0 when absent.
C14_FxTargets ==
    LET userLayer == FindUserLayer(layers)
    IN  (/\ lastOp.op = "setLayers"
         /\ lastOp.isPlaying
         /\ userLayer # None
         /\ userSourceNode # None)
        => /\ userGainNode # None /\ userFilterNode # None /\ userReverbGain # None
           /\ userGainNode[1].gain = IF userLayer[1].isActive THEN userLayer[1].volume ELSE 0
           /\ userSourceNode[1].playbackRate = OrElse(FxField(userLayer[1], "playbackRate"), 100)
           /\ userFilterNode[1].frequency = OrElse(FxField(userLayer[1], "filterFreq"), 20000)
           /\ userReverbGain[1].gain = OrElse(FxField(userLayer[1], "reverb"), 0)

----------------------------------------------------------------------------
(* Properties of loadUserAudio *)

\* C15: no call of loadUserAudio ends in an exception or a rejection reaching its
\* caller, and what a call returns after a successful decode differs from what a call
\* returns after a failure.
C15_LoadOutcome ==
    /\ \A r \in returned : r[2] # "rejected"
    /\ \A r \in returned : \A q \in returned :
          (r[1] = "decoded" /\ q[1] # "decoded") => r[2] # q[2]

----------------------------------------------------------------------------
(* Properties of the scheduler under any tempo *)

\* C16: whatever tempo setBpm was given, every tick returns after finitely many
\* dispatches, and while Playing the next trigger time stays finite, so that later
\* ticks go on advancing the cursor.
C16_NeverStuck ==
    /\ ~Hung
    /\ isPlaying => nextNoteTime < Infinity

----------------------------------------------------------------------------
(* Progress of playback *)

\* the last value the audio clock takes in SpecLive
Horizon == (MaxLiveTime \div Quantum) * Quantum

\* the step at the cursor falls due before the clock stops at Horizon
Pending == isPlaying /\ nextNoteTime < Horizon + scheduleAheadTime

\* C17: with the timer firing and the clock advancing, an engine that stays Playing
\* at a positive tempo goes on dispatching until no step that falls due is left, and
\* at 3000 BPM, where a pass of the loop takes 320 ms, the cursor comes back to 0 and
\* step 0 is dispatched again.
C17_StepsKeepComing ==
    /\ []<>(~Pending)
    /\ (isPlaying /\ tempo = 3000 /\ currentTime = 0)
          ~> \/ ~isPlaying
             \/ tempo # 3000
             \/ \E k \in 2..Len(dispatched) : dispatched[k].beat = 0

\* Playing since clock 0 at 3000 BPM, the engine has dispatched a whole pass of the
\* loop and step 0 again, and every step due before the clock stopped.
C17_Witness ==
    /\ isPlaying
    /\ session.startedAt = 0
    /\ ~Pending
    /\ Len(dispatched) > 64
    /\ dispatched[65].beat = 0
    /\ \A k \in 1..Len(dispatched) : dispatched[k].tempo = 3000

----------------------------------------------------------------------------
(* Properties of the sequence of dispatched steps *)

\* C18: whatever the delays of the timer and the calls of setBpm with a positive
\* tempo, each step dispatched after another in a session has the cursor that follows
\* the other's (0.25 more, 0 after 15.75) and a scheduled time later than the other's
\* by exactly the step interval of the tempo in force when the cursor advanced.
C18_NoGapNoDuplicate ==
    \A k \in 1..(Len(dispatched) - 1) :
        LET this == dispatched[k]
            next == dispatched[k + 1]
        IN  /\ next.beat = (this.beat + QuarterBeat) % LoopBeats
            /\ next.time > this.time
            /\ (next.time - this.time) * this.tempo = MsBeat

\* Steps were dispatched at one tempo and, after a setBpm, at the other, and the
\* cursor has wrapped.
C18_Witness ==
    /\ \E k \in 1..(Len(dispatched) - 1) : dispatched[k].tempo # dispatched[k + 1].tempo
    /\ \E k \in 2..Len(dispatched) : dispatched[k].beat = 0

----------------------------------------------------------------------------
(* Properties of the selection of notes *)

\* the notes of the list ls, as <<layer index, note index>>, that the claims have a
\* step at `beat` play
DueIn(ls, beat) ==
    UNION { {<<li, ni>> : ni \in {i \in 1..Len(ls[li].notes[1]) :
                                    Abs(ls[li].notes[1][i].startTime - beat) < 100}} :
            li \in {l \in 1..Len(ls) : /\ ls[l].isActive
                                       /\ ls[l].type # "user"
                                       /\ ls[l].notes # None} }

\* oscillator osc plays note ni of layer li of the list ls
PlaysIn(ls, osc, li, ni) ==
    /\ osc.note = ls[li].notes[1][ni]
    /\ osc.instrument = ls[li].instrument
    /\ osc.volume = ls[li].volume

DueNotes(beat) == DueIn(layers, beat)

Plays(osc, li, ni) == PlaysIn(layers, osc, li, ni)

----------------------------------------------------------------------------
(* Properties of the layer list seen by a tick *)

\* the notes a step played are those due at its cursor in the list ls, and no other
FromList(step, ls) ==
    /\ Len(step.played) = Cardinality(DueIn(ls, step.beat))
    /\ \A d \in DueIn(ls, step.beat) :
          \E p \in 1..Len(step.played) : PlaysIn(ls, step.played[p], d[1], d[2])
    /\ \A p \in 1..Len(step.played) :
          \E d \in DueIn(ls, step.beat) : PlaysIn(ls, step.played[p], d[1], d[2])

\* C20: the list the engine holds is always one list as a call of setLayers supplied
\* it (or the empty list of a new engine), and the steps that one call of scheduler()
\* dispatches, from start() or from the timer, all play the notes of that one list.
C20_OneListPerTick ==
    /\ [](layers \in LayerLists)
    /\ [][LET first == IF lastOp'.op = "start" /\ ~isPlaying
                       THEN 1 ELSE Len(dispatched) + 1
          IN  (lastOp'.op \in {"start", "timer"})
                  => \A k \in first..Len(dispatched') : FromList(dispatched'[k], layers)
         ]_vars

\* A session started on the empty list; setLayers then supplied a list with an active
\* bass layer, and the next tick dispatched the steps at cursors 0 to 0.5, playing the
\* bass notes at 0 and at 0.5.
C20_Witness ==
    /\ lastOp.op = "timer"
    /\ isPlaying
    /\ ~session.hadUserLayer
    /\ Len(dispatched) >= 3
    /\ dispatched[1].played # <<>>
    /\ dispatched[3].played # <<>>

----------------------------------------------------------------------------
(* Frame of setBpm *)

\* C21: setBpm changes the stored tempo and nothing else: the next-trigger time, the
\* cursor, the steps already dispatched and their notes stay as they were; the tick
\* that next advances the cursor dispatches the pending step at the next-trigger time
\* it found and leaves a next-trigger time one step interval of the tempo now stored
\* after the last step it dispatched.
C21_SetBpmFrame ==
    /\ [][lastOp'.op = "setBpm"
            => UNCHANGED <<ctx, isPlaying, layers, userAudioBuffer, userSourceNode,
                           userGainNode, userFilterNode, userReverbGain, nextNoteTime,
                           currentBeat, timerID, environment>>]_vars
    /\ [][(lastOp'.op = "timer" /\ Len(dispatched') > Len(dispatched))
            => /\ dispatched'[Len(dispatched) + 1].time = nextNoteTime
               /\ (nextNoteTime' - dispatched'[Len(dispatched')].time) * tempo = MsBeat]_vars

\* setBpm has just changed the tempo of a session that had dispatched steps at the
\* other tempo.
C21_Witness ==
    /\ lastOp.op = "setBpm"
    /\ lastOp.isPlaying
    /\ dispatched # <<>>
    /\ dispatched[Len(dispatched)].tempo # tempo

----------------------------------------------------------------------------
(* Envelope of the bass timbre *)

\* C22: a bass note dispatched at time t at tempo T, of duration d beats, is set to
\* the level (volume/100) * (velocity/127) at t, and its decay starts at
\* t + 0.4 * d * 60/T.
C22_BassDecayStart ==
    \A k \in 1..Len(dispatched) : \A p \in 1..Len(dispatched[k].played) :
        LET osc == dispatched[k].played[p]
        IN  osc.oscType = "sawtooth"
            => /\ osc.gain = NoteVol(osc.volume, osc.note.velocity)
               /\ osc.decay # None
               /\ (osc.decay[1] - osc.time) * dispatched[k].tempo * 10
                     = 4 * osc.note.duration * 60

----------------------------------------------------------------------------
(* Choice of the timbre *)

\* the tag contains the lower-case word, in any mix of upper and lower case
ContainsWord(tag, word) ==
    \E i \in 1..Len(tag) :
        /\ i + Len(word) - 1 <= Len(tag)
        /\ \A j \in 1..Len(word) :
              \/ tag[i + j - 1] = word[j]
              \/ \E u \in 1..Len(Upper) : Lower[u] = word[j] /\ Upper[u] = tag[i + j - 1]

\* C23: every note gets one of the three timbres, chosen by its layer's instrument
\* tag without regard to case: percussive (sine) if the tag contains "kick" or "drum",
\* else bass (sawtooth) if it contains "bass", else lead (triangle); a tag with both
\* "drum" and "bass" is percussive.
C23_TimbreOfTag ==
    \A k \in 1..Len(dispatched) : \A p \in 1..Len(dispatched[k].played) :
        LET osc == dispatched[k].played[p]
            tag == osc.instrument
        IN  osc.oscType =
                IF ContainsWord(tag, <<"k", "i", "c", "k">>)
                   \/ ContainsWord(tag, <<"d", "r", "u", "m">>) THEN "sine"
                ELSE IF ContainsWord(tag, <<"b", "a", "s", "s">>) THEN "sawtooth"
                ELSE "triangle"

\* A note of a layer tagged "DRUM BASS" has been played with the percussive timbre.
C23_Witness ==
    \E k \in 1..Len(dispatched) : \E p \in 1..Len(dispatched[k].played) :
        /\ dispatched[k].played[p].instrument
              = <<"D", "R", "U", "M", " ", "B", "A", "S", "S">>
        /\ dispatched[k].played[p].oscType = "sine"

----------------------------------------------------------------------------
(* Frame of setLayers *)

\* the nodes held in the fields, without their parameter targets
NodeIds(source, gain, filter, reverb) ==
    <<[i \in 1..Len(source) |-> <<source[i].id, source[i].buffer>>],
      [i \in 1..Len(gain) |-> gain[i].chain],
      [i \in 1..Len(filter) |-> filter[i].chain],
      [i \in 1..Len(reverb) |-> reverb[i].chain]>>

\* C24: setLayers creates, replaces and stops no node: the fields hold the same
\* source, gain, filter and reverb nodes after it as before and the same sources
\* sound; the Playing flag, the cursor, the next-trigger time, the pending timer and
\* all else but the layer list are unchanged; on a Stopped engine the targets of the
\* nodes are unchanged as well.
C24_SetLayersFrame ==
    [][lastOp'.op = "setLayers"
         => /\ NodeIds(userSourceNode', userGainNode', userFilterNode', userReverbGain')
                 = NodeIds(userSourceNode, userGainNode, userFilterNode, userReverbGain)
            /\ UNCHANGED <<ctx, isPlaying, tempo, userAudioBuffer, nextNoteTime,
                           currentBeat, timerID, environment>>
            /\ ~isPlaying => UNCHANGED <<userSourceNode, userGainNode, userFilterNode,
                                         userReverbGain>>]_vars

\* setLayers was called while the loop played, and the source started by start()
\* plays on with the rate 2.0 and the dry gain 0.6 of the list now held.
C24_Witness ==
    /\ lastOp.op = "setLayers"
    /\ lastOp.isPlaying
    /\ userSourceNode # None
    /\ userSourceNode[1].id \in sounding
    /\ userSourceNode[1].playbackRate = 200
    /\ userGainNode # None
    /\ userGainNode[1].gain = 60

----------------------------------------------------------------------------
(* Level of a note *)

\* C25: for a volume in 0..100 and a velocity in 0..127, the level a note is played
\* at is (volume/100) * (velocity/127), and half of it for the lead timbre; it is 0
\* when the volume or the velocity is 0, and no smaller volume and no smaller velocity
\* in range gives a higher level.
C25_VelocityGain ==
    \A k \in 1..Len(dispatched) : \A p \in 1..Len(dispatched[k].played) :
        LET osc == dispatched[k].played[p]
            volume == osc.volume
            velocity == osc.note.velocity
        IN  (volume \in 0..100 /\ velocity \in 0..127)
            => /\ osc.gain * 100 * 127
                     = volume * velocity * (IF osc.oscType = "triangle" THEN 1 ELSE 2) * 12700
               /\ (volume = 0 \/ velocity = 0) => osc.gain = 0
               /\ \A v \in 0..volume : NoteVol(v, velocity) <= NoteVol(volume, velocity)
               /\ \A w \in 0..velocity : NoteVol(volume, w) <= NoteVol(volume, velocity)

\* A lead note of velocity 127 in a layer of volume 100 has been played at half
\* of the full level.
C25_Witness ==
    \E k \in 1..Len(dispatched) : \E p \in 1..Len(dispatched[k].played) :
        LET osc == dispatched[k].played[p]
        IN  /\ osc.oscType = "triangle"
            /\ osc.volume = 100
            /\ osc.note.velocity = 127
            /\ 2 * osc.gain = FullLevel

----------------------------------------------------------------------------
(* The tick timer *)

\* C26: whatever calls and timer firings came before, no more than one tick timer
\* is pending, one is pending if the engine is Playing and none if it is Stopped, and
\* the pending one is the timer whose id the engine holds.
C26_OneTimerIffPlaying ==
    /\ Cardinality(timers) <= 1
    /\ isPlaying <=> timers # {}
    /\ timers \subseteq {timerID}

\* In the second session of the engine, after calls of every kind, a tick has just
\* run and has armed the next one.
C26_Witness ==
    /\ lastOp.op = "timer"
    /\ isPlaying
    /\ session.startedAt > 0
    /\ userAudioBuffer # None
    /\ layers # <<>>
    /\ timers = {timerID}

----------------------------------------------------------------------------
(* The lookahead window *)

\* The notes a tick has dispatched: those of the steps it added to the history.
NewNotes ==
    UNION { {dispatched'[k].played[p] : p \in 1..Len(dispatched'[k].played)} :
            k \in (Len(dispatched) + 1)..Len(dispatched') }

\* C27: when a timer fires no later than 0.1 s of audio clock after the run of
\* scheduler() before it, at a positive tempo, every note it dispatches is scheduled
\* at or after the audio clock of the tick and less than 0.1 s after it; a start()
\* from Stopped dispatches no note.
C27_DispatchWindow ==
    [][ /\ (/\ lastOp'.op = "timer"
            /\ tempo > 0
            /\ currentTime - lastTick <= scheduleAheadTime)
           => \A osc \in NewNotes :
                  /\ osc.time >= currentTime
                  /\ osc.time < currentTime + scheduleAheadTime
        /\ (lastOp'.op = "start" /\ ~isPlaying) => dispatched' = <<>>
      ]_vars

\* A tick that came exactly 0.1 s after the one before it has dispatched a note for
\* the very instant of the audio clock, and another one later in the window.
C27_Witness ==
    /\ lastOp.op = "timer"
    /\ session.startedAt + scheduleAheadTime = currentTime
    /\ lastTick = currentTime
    /\ \E k, j \in 1..Len(dispatched) :
          /\ dispatched[k].played # <<>>
          /\ dispatched[k].played[1].time = currentTime
          /\ dispatched[j].played # <<>>
          /\ dispatched[j].played[1].time > currentTime

----------------------------------------------------------------------------
(* Which cursor value dispatches a note *)

\* The cursor values of a pass: 0, 0.25, ..., 15.75.
Cursors == {q * QuarterBeat : q \in 0..(LoopBeats \div QuarterBeat - 1)}

NotesAt(k) ==
    {<<dispatched[k].played[p].note, dispatched[k].played[p].instrument>> :
        p \in 1..Len(dispatched[k].played)}

\* Steps k < j of the history belong to one pass of the loop.
SamePass(k, j) ==
    dispatched[j].beat - dispatched[k].beat = (j - k) * QuarterBeat

\* C28 as stated: a note is dispatched only at a cursor value less than 0.1 beat from
\* its startTime, at most once in a pass, and never if its startTime is 0.1 beat or
\* more from every cursor value.
C28_StrictTolerance ==
    /\ \A k \in 1..Len(dispatched) : \A p \in 1..Len(dispatched[k].played) :
           Abs(dispatched[k].played[p].note.startTime - dispatched[k].beat) < NoteTolerance
    /\ \A k, j \in 1..Len(dispatched) :
           (k < j /\ SamePass(k, j)) => NotesAt(k) \cap NotesAt(j) = {}
    /\ \A k \in 1..Len(dispatched) : \A p \in 1..Len(dispatched[k].played) :
           \E c \in Cursors :
               Abs(dispatched[k].played[p].note.startTime - c) < NoteTolerance

----------------------------------------------------------------------------
(* A layer list without a user-audio layer *)

\* C29: a setLayers call made while Playing with a list that holds no user-audio
\* layer leaves the loop source, its rate, and the gain, filter and reverb targets as
\* they were, and the source sounding; while such a list is held and the engine
\* plays, nothing but stop() or another setLayers call changes any of them.
C29_NoUserLayerFrame ==
    [][ /\ (lastOp'.op = "setLayers" /\ isPlaying /\ FindUserLayer(layers') = None)
           => UNCHANGED <<userSourceNode, userGainNode, userFilterNode,
                          userReverbGain, sounding>>
        /\ (/\ isPlaying
            /\ FindUserLayer(layers) = None
            /\ lastOp'.op \notin {"stop", "setLayers"})
           => UNCHANGED <<userSourceNode, userGainNode, userFilterNode,
                          userReverbGain, sounding>>
      ]_vars

\* The loop was started at rate 2.0 and dry gain 0.6; the list was then replaced by
\* one with a bass layer only, and the loop sounds on as it was.
C29_Witness ==
    /\ lastOp.op = "setLayers"
    /\ lastOp.isPlaying
    /\ FindUserLayer(layers) = None
    /\ userSourceNode # None
    /\ userSourceNode[1].id \in sounding
    /\ userSourceNode[1].playbackRate = 200
    /\ userGainNode # None
    /\ userGainNode[1].gain = 60
    /\ userFilterNode # None
    /\ userFilterNode[1].frequency = 800

----------------------------------------------------------------------------
(* Overlapping uploads *)

\* The places of the log where a decode completed successfully.
Decoded(log) ==
    {i \in 1..Len(log) : log[i][1] = "done" /\ LoadOutcome(log[i][2])[1] = "decoded"}

\* The file whose decode was the last to complete successfully, if any.
LastDecoded(log) ==
    IF Decoded(log) = {} THEN None
    ELSE Some(log[CHOOSE i \in Decoded(log) : \A j \in Decoded(log) : j <= i][2])

\* C30: after every step, the buffer the engine holds is that of the upload whose
\* decode was the last to complete successfully, in whatever order the uploads were
\* called and completed; the completion of a decode leaves the loop source, the buffer
\* it plays and the set of sounding sources as they were.
C30_LastDecodeWins ==
    [][ /\ userAudioBuffer' = LastDecoded(loadLog')
        /\ lastOp'.op = "decode" => UNCHANGED <<userSourceNode, sounding>>
      ]_vars

\* take1 was uploaded first and take2 while take1 was still decoding; take2 completed
\* first and start() began a loop of it; take1 then completed: the engine holds take1
\* and the loop still plays take2.
C30_Witness ==
    /\ loadLog = << <<"call", "take1">>, <<"call", "take2">>,
                    <<"done", "take2">>, <<"done", "take1">> >>
    /\ lastOp.op = "decode"
    /\ userAudioBuffer = Some("take1")
    /\ userSourceNode # None
    /\ userSourceNode[1].buffer = "take2"
    /\ userSourceNode[1].id \in sounding

====
